---- MODULE Spec2Model ----
(***************************************************************************)
(* Model of multiagent-demo.py: the environment-driven provider selection  *)
(* (create_llm_config), the next-speaker dispatcher                        *)
(* (custom_speaker_selection_func) and the group chat that main() sets up  *)
(* around it.                                                              *)
(*                                                                         *)
(* Text.  A message text is a sequence of chunks, each chunk standing for  *)
(* a fixed run of characters ("Dear ", "user", ..., "exitcode: 1").  The   *)
(* chunks are chosen so that a character-level occurrence of a sentinel or *)
(* of "exitcode: 1" in the concatenation is exactly a chunk-level          *)
(* occurrence: "D" and ":" occur only at one place of one chunk.  Python's *)
(* `key in last_message` is modelled as the substring search Contains.     *)
(***************************************************************************)
EXTENDS Integers, Sequences, FiniteSets, TLC

VARIABLES pc, env, llm_config, agents, messages, dropped, last_speaker,
          selected, round

vars == <<pc, env, llm_config, agents, messages, dropped, last_speaker,
          selected, round>>

\* ---------------------------------------------------------------- bounds
\* longest message text, in chunks
MaxLen == 4
\* longest transcript handed to the dispatcher
MaxMsgs == 3
\* number of trailing transcript messages the chat model keeps verbatim
Window == 2

\* ------------------------------------------------------------- constants
MAX_CHAT_ROUNDS == 20
ANTHROPIC_MODEL == "claude-3-5-sonnet-20240620"
GROQ_MODEL == "mixtral-8x7b-32768"

\* ------------------------------------------------------------------ text
Chunks == {"Dear ", "user", "planner", "engineer", "reviewer", "executor",
           "exitcode: 1"}

TextsUpTo(n) == UNION {[1..k -> Chunks] : k \in 0..n}

Texts == TextsUpTo(MaxLen)

\* Python `key in text` for str operands: some window of text equals key
Contains(text, key) ==
    \E i \in 0..(Len(text) - Len(key)) :
        SubSeq(text, i + 1, i + Len(key)) = key

\* ------------------------------------------------------------ the roles
\* the names given to the five agents, in the order of the list in main()
AgentNames == <<"Admin", "Planner", "Engineer", "Reviewer", "Executor">>

Roles == {AgentNames[i] : i \in 1..Len(AgentNames)}

\* --------------------------------------------------------- the dispatcher
\* mutations of speaker_map: the planner and engineer entries in the other
\* order, and the reviewer entry routed to the engineer
speaker_map_Reordered(ag) ==
    << [key |-> <<"Dear ", "user">>,     agent |-> ag[1]],
       [key |-> <<"Dear ", "engineer">>, agent |-> ag[3]],
       [key |-> <<"Dear ", "planner">>,  agent |-> ag[2]],
       [key |-> <<"Dear ", "reviewer">>, agent |-> ag[4]],
       [key |-> <<"Dear ", "executor">>, agent |-> ag[5]] >>

speaker_map_ReviewerMisrouted(ag) ==
    << [key |-> <<"Dear ", "user">>,     agent |-> ag[1]],
       [key |-> <<"Dear ", "planner">>,  agent |-> ag[2]],
       [key |-> <<"Dear ", "engineer">>, agent |-> ag[3]],
       [key |-> <<"Dear ", "reviewer">>, agent |-> ag[3]],
       [key |-> <<"Dear ", "executor">>, agent |-> ag[5]] >>

\* speaker_map, a dict: iteration follows insertion order.  Indices are
\* 1-based here, so groupchat.agents[0] is ag[1].
speaker_map(ag) ==
    << [key |-> <<"Dear ", "user">>,     agent |-> ag[1]],
       [key |-> <<"Dear ", "planner">>,  agent |-> ag[2]],
       [key |-> <<"Dear ", "engineer">>, agent |-> ag[3]],
       [key |-> <<"Dear ", "reviewer">>, agent |-> ag[4]],
       [key |-> <<"Dear ", "executor">>, agent |-> ag[5]] >>

\* the for loop over speaker_map.items(), from entry i on: the agent of the
\* first entry whose key occurs in last_message, or "none" when it falls
\* through
RECURSIVE ForKeyAgent(_, _, _)
ForKeyAgent(map, last_message, i) ==
    IF i > Len(map) THEN "none"
    ELSE IF Contains(last_message, map[i].key) THEN map[i].agent
    ELSE ForKeyAgent(map, last_message, i + 1)

\* mutation: the two outcomes of the exit-code test exchanged
ExecutorBranch_Inverted(ag, last_message) ==
    IF Contains(last_message, <<"exitcode: 1">>) THEN ag[2] ELSE ag[3]

\* the branch taken when last_speaker is the Executor
ExecutorBranch(ag, last_message) ==
    IF Contains(last_message, <<"exitcode: 1">>) THEN ag[3] ELSE ag[2]

\* mutations of the dispatcher: the final `return` missing, the bootstrap
\* test off by one, the previous-speaker test missing, the default taken
\* from index 0 of the agents, and the sentinel search run over the whole
\* transcript instead of the last message
custom_speaker_selection_func_NoDefault(ls, ag, msgs) ==
    IF Len(msgs) <= 1 THEN ag[2]
    ELSE LET last_message == msgs[Len(msgs)].content
             hit == ForKeyAgent(speaker_map(ag), last_message, 1)
         IN  IF hit # "none" THEN hit
             ELSE IF ls = ag[5] THEN ExecutorBranch(ag, last_message)
             ELSE "none"

custom_speaker_selection_func_Bootstrap(ls, ag, msgs) ==
    IF Len(msgs) < 1 THEN ag[2]
    ELSE LET last_message == msgs[Len(msgs)].content
             hit == ForKeyAgent(speaker_map(ag), last_message, 1)
         IN  IF hit # "none" THEN hit
             ELSE IF ls = ag[5] THEN ExecutorBranch(ag, last_message)
             ELSE ag[2]

custom_speaker_selection_func_AnySpeaker(ls, ag, msgs) ==
    IF Len(msgs) <= 1 THEN ag[2]
    ELSE LET last_message == msgs[Len(msgs)].content
             hit == ForKeyAgent(speaker_map(ag), last_message, 1)
         IN  IF hit # "none" THEN hit
             ELSE ExecutorBranch(ag, last_message)

custom_speaker_selection_func_DefaultAdmin(ls, ag, msgs) ==
    IF Len(msgs) <= 1 THEN ag[2]
    ELSE LET last_message == msgs[Len(msgs)].content
             hit == ForKeyAgent(speaker_map(ag), last_message, 1)
         IN  IF hit # "none" THEN hit
             ELSE IF ls = ag[5] THEN ExecutorBranch(ag, last_message)
             ELSE ag[1]

RECURSIVE ForMessage(_, _, _)
ForMessage(map, msgs, i) ==
    IF i = 0 THEN "none"
    ELSE LET hit == ForKeyAgent(map, msgs[i].content, 1)
         IN  IF hit # "none" THEN hit ELSE ForMessage(map, msgs, i - 1)

custom_speaker_selection_func_WholeTranscript(ls, ag, msgs) ==
    IF Len(msgs) <= 1 THEN ag[2]
    ELSE LET last_message == msgs[Len(msgs)].content
             hit == ForMessage(speaker_map(ag), msgs, Len(msgs))
         IN  IF hit # "none" THEN hit
             ELSE IF ls = ag[5] THEN ExecutorBranch(ag, last_message)
             ELSE ag[2]

custom_speaker_selection_func(ls, ag, msgs) ==
    IF Len(msgs) <= 1 THEN ag[2]
    ELSE LET last_message == msgs[Len(msgs)].content
             hit == ForKeyAgent(speaker_map(ag), last_message, 1)
         IN  IF hit # "none" THEN hit
             ELSE IF ls = ag[5] THEN ExecutorBranch(ag, last_message)
             ELSE ag[2]

\* ------------------------------------------------ dispatcher, called alone
\* messages that may precede the last one in a transcript handed to the
\* dispatcher
EarlierMessages ==
    { [name |-> "Admin",    content |-> <<>>],
      [name |-> "Executor", content |-> <<"exitcode: 1", "Dear ", "user">>] }

Histories(n) == UNION {[1..k -> EarlierMessages] : k \in 0..n}

\* the transcripts of at most n messages ending in a message of speaker ls
TranscriptsEndingWith(ls, n) ==
    IF n = 0 THEN {}
    ELSE { h \o <<[name |-> ls, content |-> t]>> :
             h \in Histories(n - 1), t \in Texts }

NoEnv == [API_TYPE |-> "<unset>", ANTHROPIC_API_KEY |-> "<unset>",
          GROQ_API_KEY |-> "<unset>"]

Init ==
    /\ pc = "call"
    /\ env = NoEnv
    /\ llm_config = "none"
    /\ agents = AgentNames
    /\ last_speaker \in Roles
    /\ messages \in {<<>>} \cup TranscriptsEndingWith(last_speaker, MaxMsgs)
    /\ dropped = 0
    /\ selected = "none"
    /\ round = 0

\* one invocation of the callback by the runtime
SelectSpeaker ==
    /\ pc = "call"
    /\ selected' = custom_speaker_selection_func(last_speaker, agents, messages)
    /\ pc' = "returned"
    /\ UNCHANGED <<env, llm_config, agents, messages, dropped, last_speaker,
                   round>>

Next == SelectSpeaker

Spec == Init /\ [][Next]_vars

\* ===================================================== provider selection
\* os.getenv of a variable that is not set
Unset == "<unset>"

\* values the environment may give API_TYPE and the two keys
EnvApiTypes == {Unset, "", "anthropic", "Anthropic", "groq", "GROQ", "openai"}

EnvKeys == {Unset, "", "key-1", "key-2"}

Environments ==
    [API_TYPE : EnvApiTypes, ANTHROPIC_API_KEY : EnvKeys,
     GROQ_API_KEY : EnvKeys]

\* str.lower() on the values of EnvApiTypes
lower(s) ==
    CASE s = "Anthropic" -> "anthropic"
      [] s = "GROQ"      -> "groq"
      [] OTHER           -> s

\* os.getenv(name, default)
getenv(e, name, default) == IF e[name] = Unset THEN default ELSE e[name]

\* the module-level constants read from the environment; None is Unset
API_TYPE(e) == lower(getenv(e, "API_TYPE", "anthropic"))

ANTHROPIC_API_KEY(e) == getenv(e, "ANTHROPIC_API_KEY", Unset)

GROQ_API_KEY(e) == getenv(e, "GROQ_API_KEY", Unset)

\* Python's `not key` for a key that is None or a str
Falsy(key) == key = Unset \/ key = ""

Raise(msg) == [raised |-> msg, config_list |-> <<>>]

Config(api_type, model, api_key) ==
    [raised |-> "none",
     config_list |-> <<[api_type |-> api_type, model |-> model,
                        api_key |-> api_key]>>]

\* mutation: the groq branch tests the anthropic key
create_llm_config_WrongKeyTested(e) ==
    IF API_TYPE(e) = "anthropic"
    THEN IF Falsy(ANTHROPIC_API_KEY(e))
         THEN Raise("ANTHROPIC_API_KEY environment variable is not set")
         ELSE Config("anthropic", ANTHROPIC_MODEL, ANTHROPIC_API_KEY(e))
    ELSE IF API_TYPE(e) = "groq"
    THEN IF Falsy(ANTHROPIC_API_KEY(e))
         THEN Raise("GROQ_API_KEY environment variable is not set")
         ELSE Config("groq", GROQ_MODEL, GROQ_API_KEY(e))
    ELSE Raise("Invalid API_TYPE")

create_llm_config(e) ==
    IF API_TYPE(e) = "anthropic"
    THEN IF Falsy(ANTHROPIC_API_KEY(e))
         THEN Raise("ANTHROPIC_API_KEY environment variable is not set")
         ELSE Config("anthropic", ANTHROPIC_MODEL, ANTHROPIC_API_KEY(e))
    ELSE IF API_TYPE(e) = "groq"
    THEN IF Falsy(GROQ_API_KEY(e))
         THEN Raise("GROQ_API_KEY environment variable is not set")
         ELSE Config("groq", GROQ_MODEL, GROQ_API_KEY(e))
    ELSE Raise("Invalid API_TYPE")

ProviderInit ==
    /\ pc = "start"
    /\ env \in Environments
    /\ llm_config = "none"
    /\ agents = AgentNames
    /\ last_speaker = "Admin"
    /\ messages = <<>>
    /\ dropped = 0
    /\ selected = "none"
    /\ round = 0

\* main() up to the agents: the ValueError of create_llm_config is not
\* caught, so it ends the program
CreateLlmConfig ==
    /\ pc = "start"
    /\ llm_config' = create_llm_config(env)
    /\ pc' = IF llm_config'.raised = "none" THEN "configured"
             ELSE "config_error"
    /\ UNCHANGED <<env, agents, messages, dropped, last_speaker, selected,
                   round>>

ProviderNext == CreateLlmConfig

ProviderSpec == ProviderInit /\ [][ProviderNext]_vars

\* =============================================================== the chat
\* The turn loop belongs to the orchestration runtime; main() hands it the
\* agents, an empty transcript, max_round and the dispatcher.  The state
\* keeps the last Window messages of the transcript verbatim and counts the
\* older ones in `dropped`: the dispatcher reads only whether there is more
\* than one message and the last message, so with Window >= 2 it returns on
\* the kept messages what it returns on the whole transcript.

\* mutation: one round too many handed to GroupChat
max_round_OneMore == MAX_CHAT_ROUNDS + 1

\* GroupChat(max_round=MAX_CHAT_ROUNDS)
max_round == MAX_CHAT_ROUNDS

TranscriptLen == dropped + Len(messages)

\* texts a participant may produce: nothing of note, each sentinel alone,
\* a failure report with and without the sentinel the Executor is told to
\* use, and two sentinels at once
ChatTexts ==
    { <<>>, <<"user">>,
      <<"Dear ", "user">>, <<"Dear ", "planner">>, <<"Dear ", "engineer">>,
      <<"Dear ", "reviewer">>, <<"Dear ", "executor">>,
      <<"exitcode: 1">>, <<"exitcode: 1", "Dear ", "engineer">>,
      <<"Dear ", "executor", "Dear ", "user">> }

\* groupchat.append, on the kept part of the transcript
AppendMessage(m) ==
    IF Len(messages) < Window
    THEN /\ messages' = Append(messages, m)
         /\ dropped' = dropped
    ELSE /\ messages' = Append(Tail(messages), m)
         /\ dropped' = dropped + 1

ChatInit ==
    /\ pc = "initiate"
    /\ env \in {[API_TYPE |-> Unset, ANTHROPIC_API_KEY |-> "key-1",
                 GROQ_API_KEY |-> Unset]}
    /\ llm_config = create_llm_config(env)
    /\ agents = AgentNames
    /\ last_speaker = AgentNames[1]
    /\ messages = <<>>
    /\ dropped = 0
    /\ selected = "none"
    /\ round = 0

\* agents[0].initiate_chat(manager, message=task_message): the task, with
\* the contents of the five files in it, opens the transcript
InitiateChat ==
    /\ pc = "initiate"
    /\ \E task_message \in ChatTexts :
           AppendMessage([name |-> agents[1], content |-> task_message])
    /\ last_speaker' = agents[1]
    /\ round' = 1
    /\ pc' = "select"
    /\ UNCHANGED <<env, llm_config, agents, selected>>

\* the runtime asks the dispatcher who is next
ChatSelectSpeaker ==
    /\ pc = "select"
    /\ round < max_round
    /\ selected' = custom_speaker_selection_func(last_speaker, agents, messages)
    /\ pc' = "reply"
    /\ UNCHANGED <<env, llm_config, agents, messages, dropped, last_speaker,
                   round>>

\* the selected participant's reply is appended
Reply ==
    /\ pc = "reply"
    /\ \E text \in ChatTexts :
           AppendMessage([name |-> selected, content |-> text])
    /\ last_speaker' = selected
    /\ round' = round + 1
    /\ pc' = "select"
    /\ UNCHANGED <<env, llm_config, agents, selected>>

\* the selected participant ends the conversation instead of replying
Terminate ==
    /\ pc = "reply"
    /\ pc' = "done"
    /\ UNCHANGED <<env, llm_config, agents, messages, dropped, last_speaker,
                   selected, round>>

\* the maximum round count is reached
RoundLimit ==
    /\ pc = "select"
    /\ round >= max_round
    /\ pc' = "done"
    /\ UNCHANGED <<env, llm_config, agents, messages, dropped, last_speaker,
                   selected, round>>

ChatNext ==
    \/ InitiateChat
    \/ ChatSelectSpeaker
    \/ Reply
    \/ Terminate
    \/ RoundLimit

ChatSpec == ChatInit /\ [][ChatNext]_vars

\* the runtime is sequential and never idles while a step is possible
FairChatSpec == ChatSpec /\ WF_vars(ChatNext)

\* ===================================================== dispatcher claims
\* the sentinels in the order the claims give, and the role each names
SentinelOrder ==
    << <<"Dear ", "user">>, <<"Dear ", "planner">>, <<"Dear ", "engineer">>,
       <<"Dear ", "reviewer">>, <<"Dear ", "executor">> >>

SentinelRole == <<"Admin", "Planner", "Engineer", "Reviewer", "Executor">>

ExitCode1 == <<"exitcode: 1">>

LastText == IF Len(messages) = 0 THEN <<>> ELSE messages[Len(messages)].content

HasSentinel(i) == Contains(LastText, SentinelOrder[i])

NoSentinel == \A i \in 1..5 : ~HasSentinel(i)

Returned == pc = "returned"

\* C1: whatever the last speaker and the transcript, the dispatcher returns
\* one of the five registered roles
C1_Total == Returned => selected \in Roles

C1_Witness ==
    /\ Returned
    /\ Len(messages) = MaxMsgs
    /\ last_speaker = "Reviewer"
    /\ NoSentinel
    /\ selected \in Roles

\* C2: a transcript of at most one message yields Planner, whoever spoke
\* last and whatever the single message says
C2_Bootstrap == (Returned /\ Len(messages) <= 1) => selected = "Planner"

C2_Witness ==
    /\ Returned
    /\ Len(messages) = 1
    /\ last_speaker = "Executor"
    /\ HasSentinel(1)
    /\ Contains(LastText, ExitCode1)
    /\ selected = "Planner"

\* C3: with two or more messages and at least one sentinel in the last one,
\* the role of the first sentinel of the priority order that is present is
\* returned, wherever the sentinels stand in the text and whoever spoke last
C3_Priority ==
    (Returned /\ Len(messages) >= 2) =>
        \A i \in 1..5 :
            (HasSentinel(i) /\ \A j \in 1..(i - 1) : ~HasSentinel(j))
                => selected = SentinelRole[i]

\* "Dear executor" stands before "Dear planner" in the text; Planner wins
C3_Witness ==
    /\ Returned
    /\ Len(messages) >= 2
    /\ last_speaker = "Executor"
    /\ LastText = <<"Dear ", "executor", "Dear ", "planner">>
    /\ selected = "Planner"

\* C4 as stated: every transcript whose last message has "Dear reviewer" and
\* no sentinel of higher priority yields Reviewer
C4_Original ==
    (Returned /\ Len(messages) >= 1 /\ HasSentinel(4)
        /\ ~HasSentinel(1) /\ ~HasSentinel(2) /\ ~HasSentinel(3))
    => selected = "Reviewer"

\* C4 (amended): every transcript of two or more messages whose last message
\* has "Dear reviewer" and no sentinel of higher priority yields Reviewer
C4_Reviewer ==
    (Returned /\ Len(messages) >= 2 /\ HasSentinel(4)
        /\ ~HasSentinel(1) /\ ~HasSentinel(2) /\ ~HasSentinel(3))
    => selected = "Reviewer"

C4_Witness ==
    /\ Returned
    /\ Len(messages) >= 2
    /\ last_speaker = "Engineer"
    /\ HasSentinel(4)
    /\ HasSentinel(5)
    /\ ~HasSentinel(1) /\ ~HasSentinel(2) /\ ~HasSentinel(3)
    /\ selected = "Reviewer"

\* C5 as stated: after the Executor, "exitcode: 1" in the last message
\* yields Engineer and its absence yields Planner
C5_Original ==
    (Returned /\ Len(messages) >= 1 /\ last_speaker = "Executor") =>
        selected = IF Contains(LastText, ExitCode1) THEN "Engineer"
                   ELSE "Planner"

\* C5 (amended): after the Executor, with two or more messages and no
\* sentinel in the last one, "exitcode: 1" yields Engineer and its absence
\* yields Planner
C5_ExitCode ==
    (Returned /\ Len(messages) >= 2 /\ NoSentinel
        /\ last_speaker = "Executor") =>
        /\ Contains(LastText, ExitCode1) => selected = "Engineer"
        /\ ~Contains(LastText, ExitCode1) => selected = "Planner"

C5_Witness ==
    /\ Returned
    /\ Len(messages) >= 2
    /\ last_speaker = "Executor"
    /\ NoSentinel
    /\ Contains(LastText, ExitCode1)
    /\ selected = "Engineer"

\* C6: with two or more messages and no sentinel in the last one, the
\* Executor as last speaker yields Engineer exactly on "exitcode: 1" and
\* Planner otherwise; any other last speaker yields Planner even on
\* "exitcode: 1"
C6_Fallthrough ==
    (Returned /\ Len(messages) >= 2 /\ NoSentinel) =>
        IF last_speaker = "Executor"
        THEN /\ (selected = "Engineer") <=> Contains(LastText, ExitCode1)
             /\ selected \in {"Engineer", "Planner"}
        ELSE selected = "Planner"

C6_Witness ==
    /\ Returned
    /\ Len(messages) >= 2
    /\ last_speaker = "Engineer"
    /\ NoSentinel
    /\ Contains(LastText, ExitCode1)
    /\ selected = "Planner"

\* C9 lets two invocations differ in everything but whether there is at
\* most one message, the text of the last message and whether the last
\* speaker is the Executor.  Representative is the one invocation chosen
\* for the observation of the current one: a fixed speaker on either side of
\* the Executor test, and a fixed message before the last one.
RepresentativeSpeaker == IF last_speaker = "Executor" THEN "Executor" ELSE "Admin"

RepresentativeTranscript ==
    IF Len(messages) = 0 THEN <<>>
    ELSE IF Len(messages) = 1
         THEN <<[name |-> RepresentativeSpeaker, content |-> LastText]>>
         ELSE <<[name |-> "Admin", content |-> <<>>],
                [name |-> RepresentativeSpeaker, content |-> LastText]>>

\* C9: a call changes neither the transcript nor the registry, and returns
\* the role that the representative invocation of its observation returns,
\* whatever its earlier messages and their speakers; so any two invocations
\* with one observation return the same role
C9_Pure ==
    /\ [][(pc = "call" /\ pc' = "returned")
            => (messages' = messages /\ agents' = agents)]_vars
    /\ [](Returned =>
            selected = custom_speaker_selection_func(
                           RepresentativeSpeaker, agents,
                           RepresentativeTranscript))

\* the earlier message carries a sentinel and an exit code of its own
C9_Witness ==
    /\ Returned
    /\ Len(messages) = 2
    /\ messages[1].content = <<"exitcode: 1", "Dear ", "user">>
    /\ NoSentinel
    /\ last_speaker = "Admin"
    /\ selected = "Planner"

\* ======================================================= provider claims
Failed == pc = "config_error"

Configured == pc = "configured"

ProviderNames == {"anthropic", "groq"}

SelectedKey == IF API_TYPE(env) = "anthropic" THEN ANTHROPIC_API_KEY(env)
               ELSE GROQ_API_KEY(env)

SelectedModel == IF API_TYPE(env) = "anthropic" THEN ANTHROPIC_MODEL
                 ELSE GROQ_MODEL

YieldsSelectedProvider ==
    /\ Configured
    /\ llm_config.raised = "none"
    /\ Len(llm_config.config_list) = 1
    /\ llm_config.config_list[1] =
           [api_type |-> API_TYPE(env), model |-> SelectedModel,
            api_key |-> SelectedKey]

EndsInConfigurationError ==
    /\ Failed
    /\ llm_config.raised # "none"
    /\ llm_config.config_list = <<>>

\* C7 as stated: a configuration error exactly when the provider is not
\* anthropic or groq or the selected provider's key is unset; otherwise one
\* configuration with the selected provider's name, model and key
C7_Original ==
    pc # "start" =>
        IF API_TYPE(env) \notin ProviderNames \/ SelectedKey = Unset
        THEN EndsInConfigurationError
        ELSE YieldsSelectedProvider

\* C7 (amended): a configuration error exactly when the provider is not
\* anthropic or groq or the selected provider's key is unset or the empty
\* string; otherwise one configuration with the selected provider's name,
\* model and key
C7_Provider ==
    pc # "start" =>
        IF API_TYPE(env) \notin ProviderNames \/ SelectedKey \in {Unset, ""}
        THEN EndsInConfigurationError
        ELSE YieldsSelectedProvider

\* groq selected in capitals, its key set, the anthropic key not set
C7_Witness ==
    /\ Configured
    /\ env.API_TYPE = "GROQ"
    /\ env.ANTHROPIC_API_KEY = Unset
    /\ llm_config.config_list[1].api_type = "groq"
    /\ llm_config.config_list[1].api_key = env.GROQ_API_KEY

\* =========================================================== chat claims
\* one step either leaves the transcript alone or appends one message to
\* it, the kept messages staying as they were
AppendsOnly ==
    \/ /\ messages' = messages
       /\ dropped' = dropped
    \/ /\ dropped' + Len(messages') = TranscriptLen + 1
       /\ dropped' >= dropped
       /\ \A i \in 1..(Len(messages') - 1) :
              messages'[i] = messages[i + (dropped' - dropped)]

\* C8: the transcript only grows, by appending; the number of rounds never
\* exceeds 20; every run ends
C8_Bounded ==
    /\ [][AppendsOnly]_vars
    /\ [](round <= 20 /\ TranscriptLen <= 20)
    /\ <>(pc = "done")

\* the Executor has just reported a failure for the ninth time, is routed to
\* the Engineer, and the round limit has been reached
C8_Witness ==
    /\ pc = "done"
    /\ round = 20
    /\ TranscriptLen = 20
    /\ last_speaker = "Executor"
    /\ LastText = <<"exitcode: 1">>
    /\ messages[Len(messages) - 1].name = "Engineer"

\* C10: the dispatcher selects Admin, Reviewer or Executor only with two or
\* more messages in the transcript and that role's own sentinel in the last
\* one
C10_OwnSentinel ==
    pc = "reply" =>
        /\ selected \in Roles
        /\ selected = "Admin" =>
               (TranscriptLen >= 2 /\ Contains(LastText, <<"Dear ", "user">>))
        /\ selected = "Reviewer" =>
               (TranscriptLen >= 2
                /\ Contains(LastText, <<"Dear ", "reviewer">>))
        /\ selected = "Executor" =>
               (TranscriptLen >= 2
                /\ Contains(LastText, <<"Dear ", "executor">>))

C10_Witness ==
    /\ pc = "reply"
    /\ selected = "Admin"
    /\ last_speaker = "Executor"
    /\ TranscriptLen >= 2
    /\ LastText = <<"Dear ", "executor", "Dear ", "user">>

====
